---- MODULE Spec2Model ----
(***************************************************************************)
(* Model of the polling / reconciliation core of the EcoCar HMI client:    *)
(* NetworkManager (networkmanager.cpp) issues two GETs per timer tick and  *)
(* dispatches every finished reply; DataModel (datamodel.cpp) owns the     *)
(* snapshot (m_vehicleSpeed, m_batteryVoltage, m_motorTemp, m_connected)   *)
(* and raises the change notifications.  Everything runs on the one Qt     *)
(* event-loop thread with direct signal/slot connections, so one slot      *)
(* invocation (a timer timeout, a reply's finished()) is one step.         *)
(*                                                                         *)
(* Doubles are represented by integers in tenths (425 stands for 42.5).    *)
(***************************************************************************)
EXTENDS Integers, Sequences, FiniteSets, TLC

\* ------------------------------------------------------------------ bounds
\* Number of timer ticks explored (the timer itself never stops).
MaxTicks == 2

\* The doubles a server sends in this model (0.0 and 42.5, in tenths).
Values == {0, 425}

\* ------------------------------------------------------- QJsonValue model
\* A QJsonValue is a tagged record; an object is a function from its keys.
Undefined == [t |-> "undefined"]
JDouble(d) == [t |-> "double", d |-> d]
JBool(b) == [t |-> "bool", b |-> b]
JString(str) == [t |-> "string", s |-> str]
JObject(obj) == [t |-> "object", o |-> obj]
EmptyObject == [k \in {} |-> Undefined]

\* QJsonObject::contains(key)
contains(obj, key) == key \in DOMAIN obj

\* QJsonObject::operator[](key) const: the member, or Undefined when absent.
at(obj, key) == IF key \in DOMAIN obj THEN obj[key] ELSE Undefined

\* QJsonValue::toObject(): the object, or an empty object for any other type.
toObject(v) == IF v.t = "object" THEN v.o ELSE EmptyObject

\* QJsonValue::toDouble(): the number, or the default 0.0 for any other type.
toDouble(v) == IF v.t = "double" THEN v.d ELSE 0

\* QJsonValue::toBool(): the boolean, or the default false for any other type.
toBool(v) == IF v.t = "bool" THEN v.b ELSE FALSE

\* Reply bodies.  QJsonDocument::fromJson yields a null document for a body
\* that is not a JSON object or array; QJsonDocument::object() yields an
\* empty object when the document is an array.
Garbage == [t |-> "garbage"]
JArray == [t |-> "array"]
NullDoc == [t |-> "null"]
fromJson(data) == IF data.t \in {"object", "array"} THEN data ELSE NullDoc
isNull(doc) == doc.t = "null"
object(doc) == IF doc.t = "object" THEN doc.o ELSE EmptyObject

\* ------------------------------------------------------------------- URLs
\* A URL path is its sequence of segments.
BasePath == <<"api", "v1">>
LatestRel == <<"can", "latest">>
StatusRel == <<"can", "status">>

\* QUrl::resolved(relative): RFC 3986 merge - the base path up to and
\* including its last "/" (i.e. without its last segment), then the relative
\* path.
resolved(base, rel) == SubSeq(base, 1, Len(base) - 1) \o rel

\* QString::contains("/" + seg) on a path: some segment starts right after
\* a slash with seg; the segments here are compared whole.
pathContains(path, seg) == \E i \in 1..Len(path) : path[i] = seg

NoError == "NoError"

\* QNetworkReply::errorString() for the error codes the model draws.
errorString(e) ==
    IF e = "ConnectionRefusedError" THEN "Connection refused"
    ELSE IF e = "InternalServerError" THEN "Internal Server Error"
    ELSE "Unknown error"

\* --------------------------------------------------------------- DataModel
\* A handler works on the record s of the DataModel's members plus out, the
\* signals it has emitted so far in this invocation.  Every emitted signal
\* is recorded with the values the getters return at the moment of emission
\* (slots connected to it run synchronously at that point).
Snapshot(s) ==
    [vehicleSpeed |-> s.vehicleSpeed, batteryVoltage |-> s.batteryVoltage,
     motorTemp |-> s.motorTemp, connected |-> s.connected]

Emit(s, sig, msg) ==
    [s EXCEPT !.out = Append(@, [sig |-> sig, msg |-> msg, seen |-> Snapshot(s)])]

\* handleNetworkError that clears m_connected before it emits error.
handleNetworkError_clearsFirst(s, error) ==
    LET s1 == [s EXCEPT !.connected = FALSE]
        s2 == Emit(s1, "error", error)
    IN  Emit(s2, "connectionStatusChanged", "")

\* handleNetworkError that forgets to clear m_connected.
handleNetworkError_keepsFlag(s, error) ==
    Emit(Emit(s, "error", error), "connectionStatusChanged", "")

\* handleNetworkError that also zeroes the speed reading.
handleNetworkError_resetsSpeed(s, error) ==
    LET s1 == Emit(s, "error", error)
        s2 == [s1 EXCEPT !.connected = FALSE]
        s3 == Emit(s2, "connectionStatusChanged", "")
    IN  Emit([s3 EXCEPT !.vehicleSpeed = 0], "vehicleSpeedChanged", "")

\* DataModel::handleNetworkError
handleNetworkError(s, error) ==
    LET s1 == Emit(s, "error", error)
        s2 == [s1 EXCEPT !.connected = FALSE]
    IN  Emit(s2, "connectionStatusChanged", "")

\* handleDataReceived that takes any telemetry as proof of connectivity.
handleDataReceived_marksConnected(s, data) ==
    LET messages == toObject(at(data, "messages"))
        newSpeed == toDouble(at(toObject(at(messages, "speed")), "value"))
        s1 == IF contains(messages, "speed") /\ s.vehicleSpeed # newSpeed
              THEN Emit([s EXCEPT !.vehicleSpeed = newSpeed], "vehicleSpeedChanged", "")
              ELSE s
        newVoltage == toDouble(at(toObject(at(messages, "battery_voltage")), "value"))
        s2 == IF contains(messages, "battery_voltage") /\ s1.batteryVoltage # newVoltage
              THEN Emit([s1 EXCEPT !.batteryVoltage = newVoltage], "batteryVoltageChanged", "")
              ELSE s1
        newTemp == toDouble(at(toObject(at(messages, "motor_temp")), "value"))
        s3 == IF contains(messages, "motor_temp") /\ s2.motorTemp # newTemp
              THEN Emit([s2 EXCEPT !.motorTemp = newTemp], "motorTempChanged", "")
              ELSE s2
    IN  IF ~s3.connected
        THEN Emit([s3 EXCEPT !.connected = TRUE], "connectionStatusChanged", "")
        ELSE s3

\* handleDataReceived whose speed block stores and emits without comparing.
handleDataReceived_noCompare(s, data) ==
    LET messages == toObject(at(data, "messages"))
        newSpeed == toDouble(at(toObject(at(messages, "speed")), "value"))
        s1 == IF contains(messages, "speed")
              THEN Emit([s EXCEPT !.vehicleSpeed = newSpeed], "vehicleSpeedChanged", "")
              ELSE s
        newVoltage == toDouble(at(toObject(at(messages, "battery_voltage")), "value"))
        s2 == IF contains(messages, "battery_voltage") /\ s1.batteryVoltage # newVoltage
              THEN Emit([s1 EXCEPT !.batteryVoltage = newVoltage], "batteryVoltageChanged", "")
              ELSE s1
        newTemp == toDouble(at(toObject(at(messages, "motor_temp")), "value"))
    IN  IF contains(messages, "motor_temp") /\ s2.motorTemp # newTemp
        THEN Emit([s2 EXCEPT !.motorTemp = newTemp], "motorTempChanged", "")
        ELSE s2

\* handleDataReceived whose motor_temp block lacks the contains() test.
handleDataReceived_noContains(s, data) ==
    LET messages == toObject(at(data, "messages"))
        newSpeed == toDouble(at(toObject(at(messages, "speed")), "value"))
        s1 == IF contains(messages, "speed") /\ s.vehicleSpeed # newSpeed
              THEN Emit([s EXCEPT !.vehicleSpeed = newSpeed], "vehicleSpeedChanged", "")
              ELSE s
        newVoltage == toDouble(at(toObject(at(messages, "battery_voltage")), "value"))
        s2 == IF contains(messages, "battery_voltage") /\ s1.batteryVoltage # newVoltage
              THEN Emit([s1 EXCEPT !.batteryVoltage = newVoltage], "batteryVoltageChanged", "")
              ELSE s1
        newTemp == toDouble(at(toObject(at(messages, "motor_temp")), "value"))
    IN  IF s2.motorTemp # newTemp
        THEN Emit([s2 EXCEPT !.motorTemp = newTemp], "motorTempChanged", "")
        ELSE s2

\* DataModel::handleDataReceived
handleDataReceived(s, data) ==
    LET messages == toObject(at(data, "messages"))
        newSpeed == toDouble(at(toObject(at(messages, "speed")), "value"))
        s1 == IF contains(messages, "speed") /\ s.vehicleSpeed # newSpeed
              THEN Emit([s EXCEPT !.vehicleSpeed = newSpeed], "vehicleSpeedChanged", "")
              ELSE s
        newVoltage == toDouble(at(toObject(at(messages, "battery_voltage")), "value"))
        s2 == IF contains(messages, "battery_voltage") /\ s1.batteryVoltage # newVoltage
              THEN Emit([s1 EXCEPT !.batteryVoltage = newVoltage], "batteryVoltageChanged", "")
              ELSE s1
        newTemp == toDouble(at(toObject(at(messages, "motor_temp")), "value"))
    IN  IF contains(messages, "motor_temp") /\ s2.motorTemp # newTemp
        THEN Emit([s2 EXCEPT !.motorTemp = newTemp], "motorTempChanged", "")
        ELSE s2

\* handleStatusReceived that emits before it stores.
handleStatusReceived_emitsBeforeStore(s, status) ==
    LET newConnected == toBool(at(status, "connected"))
    IN  IF s.connected # newConnected
        THEN [Emit(s, "connectionStatusChanged", "") EXCEPT !.connected = newConnected]
        ELSE s

\* handleStatusReceived that emits without comparing.
handleStatusReceived_alwaysEmits(s, status) ==
    Emit([s EXCEPT !.connected = toBool(at(status, "connected"))],
         "connectionStatusChanged", "")

\* DataModel::handleStatusReceived
handleStatusReceived(s, status) ==
    LET newConnected == toBool(at(status, "connected"))
    IN  IF s.connected # newConnected
        THEN Emit([s EXCEPT !.connected = newConnected], "connectionStatusChanged", "")
        ELSE s

\* ---------------------------------------------------------- NetworkManager
\* handleNetworkReply without the return after the first emit error(...).
handleNetworkReply_noReturn(s, reply) ==
    LET s0 == IF reply.error # NoError
              THEN handleNetworkError(s, errorString(reply.error))
              ELSE s
        doc == fromJson(reply.data)
    IN  IF isNull(doc)
        THEN handleNetworkError(s0, "Invalid JSON response")
        ELSE LET json == object(doc)
             IN  IF pathContains(reply.path, "latest")
                 THEN handleDataReceived(s0, json)
                 ELSE IF pathContains(reply.path, "status")
                      THEN handleStatusReceived(s0, json)
                      ELSE s0

\* NetworkManager::handleNetworkReply.  The three signals it emits are
\* connected (datamodel.cpp:15-20) directly to the DataModel's handlers, so
\* an emit is a call of the connected slot.
handleNetworkReply(s, reply) ==
    IF reply.error # NoError
    THEN handleNetworkError(s, errorString(reply.error))
    ELSE LET doc == fromJson(reply.data)
         IN  IF isNull(doc)
             THEN handleNetworkError(s, "Invalid JSON response")
             ELSE LET json == object(doc)
                  IN  IF pathContains(reply.path, "latest")
                      THEN handleDataReceived(s, json)
                      ELSE IF pathContains(reply.path, "status")
                           THEN handleStatusReceived(s, json)
                           ELSE s

\* NetworkManager::fetchLatestData: the request put in flight for a cycle.
fetchLatestData(cycle) == [path |-> resolved(BasePath, LatestRel), cycle |-> cycle]

\* NetworkManager::fetchSystemStatus
fetchSystemStatus(cycle) == [path |-> resolved(BasePath, StatusRel), cycle |-> cycle]

\* updateData that skips a cycle while earlier fetches are still pending.
updateData_skipsWhenBusy(pending, cycle) ==
    IF pending # {}
    THEN pending
    ELSE {fetchLatestData(cycle), fetchSystemStatus(cycle)}

\* updateData that issues only the telemetry fetch.
updateData_latestOnly(pending, cycle) == pending \cup {fetchLatestData(cycle)}

\* DataModel::updateData: both fetches are issued, nothing is awaited.
updateData(pending, cycle) ==
    pending \cup {fetchLatestData(cycle), fetchSystemStatus(cycle)}

\* ------------------------------------------------- what a server may send
\* An entry of the messages mapping: {"value": d}, {} or {"value": "n/a"}.
Entries ==
    {JObject([k \in {"value"} |-> JDouble(d)]) : d \in Values}
      \cup {JObject(EmptyObject), JObject([k \in {"value"} |-> JString("n/a")])}

KnownKeys == {"speed", "battery_voltage", "motor_temp"}
UnknownKey == "rpm"

\* {"value": 42.5}
Reading == JObject([k \in {"value"} |-> JDouble(425)])

\* The messages mappings a server sends here: no key, one known key or all
\* three with one kind of entry for all of them; one known key with a
\* defective entry next to good readings for the other two; and mappings
\* that carry a key the client does not know.
KeySets == {{}, KnownKeys} \cup {{k} : k \in KnownKeys}

Mappings ==
    UNION {[ks -> {e}] : ks \in KeySets, e \in Entries}
      \cup {[k \in KnownKeys |-> IF k = bad THEN JObject(EmptyObject) ELSE Reading] :
                bad \in KnownKeys}
      \cup {[k \in {UnknownKey} |-> Reading],
            [k \in {UnknownKey, "speed"} |-> Reading]}

LatestBodies ==
    {[t |-> "object", o |-> [k \in {"messages"} |-> JObject(m)]] : m \in Mappings}
      \cup {[t |-> "object", o |-> EmptyObject],
            [t |-> "object", o |-> [k \in {"messages"} |-> JString("none")]],
            JArray, Garbage}

StatusBodies ==
    {[t |-> "object", o |-> [k \in {"connected"} |-> JBool(b)]] : b \in BOOLEAN}
      \cup {[t |-> "object", o |-> EmptyObject],
            [t |-> "object", o |-> [k \in {"connected"} |-> JString("yes")]],
            JArray, Garbage}

ErrorCodes == {"ConnectionRefusedError", "InternalServerError"}

\* The ways a request can finish: with a transport or HTTP error (readAll()
\* then yields nothing useful), or without error and with some body.
Replies(req, bodies) ==
    {[path |-> req.path, cycle |-> req.cycle, error |-> e, data |-> Garbage] : e \in ErrorCodes}
      \cup {[path |-> req.path, cycle |-> req.cycle, error |-> NoError, data |-> b] : b \in bodies}

\* ------------------------------------------------------------------ state
VARIABLES
    m_vehicleSpeed,     \* DataModel::m_vehicleSpeed
    m_batteryVoltage,   \* DataModel::m_batteryVoltage
    m_motorTemp,        \* DataModel::m_motorTemp
    m_connected,        \* DataModel::m_connected
    timerActive,        \* updateTimer is running
    ticks,              \* number of timeouts of updateTimer so far
    inflight,           \* requests whose reply has not finished yet
    emitted,            \* signals emitted by the most recent step, in order
    last,               \* the most recent step: a tick, or the reply it handled
    pre,                \* the snapshot right before the most recent step
    lastOutcome,        \* the most recent of the status results and failures
    errorSurplus,       \* error notifications delivered to the observer so far,
                        \* minus replies finished with an error or a non-JSON body
    issuedLatest,       \* GETs issued for can/latest so far (manager->get)
    issuedStatus        \* GETs issued for can/status so far (manager->get)

vars ==
    <<m_vehicleSpeed, m_batteryVoltage, m_motorTemp, m_connected, timerActive,
      ticks, inflight, emitted, last, pre, lastOutcome, errorSurplus,
      issuedLatest, issuedStatus>>

\* The DataModel's members as the record the handlers work on.
Members ==
    [vehicleSpeed |-> m_vehicleSpeed, batteryVoltage |-> m_batteryVoltage,
     motorTemp |-> m_motorTemp, connected |-> m_connected, out |-> <<>>]

NoReply == [path |-> <<>>, cycle |-> 0, error |-> NoError, data |-> Garbage]

\* Classification of a finished reply, from the reply alone.
Failed(reply) == reply.error # NoError \/ reply.data.t \notin {"object", "array"}
IsLatest(reply) == reply.path[Len(reply.path)] = "latest"
IsStatus(reply) == reply.path[Len(reply.path)] = "status"

\* The body of a reply as a JSON object ({} for an array document).
Body(reply) == IF reply.data.t = "object" THEN reply.data.o ELSE EmptyObject
HasBoolConnected(reply) ==
    "connected" \in DOMAIN Body(reply) /\ Body(reply)["connected"].t = "bool"

CountSig(out, sig) == Cardinality({i \in 1..Len(out) : out[i].sig = sig})

\* DataModel::DataModel: members zeroed, disconnected, timer started.
Init ==
    /\ m_vehicleSpeed = 0
    /\ m_batteryVoltage = 0
    /\ m_motorTemp = 0
    /\ m_connected = FALSE
    /\ timerActive = TRUE
    /\ ticks = 0
    /\ inflight = {}
    /\ emitted = <<>>
    /\ last = [op |-> "init", reply |-> NoReply]
    /\ pre = Snapshot(Members)
    /\ lastOutcome = [kind |-> "none", connected |-> FALSE]
    /\ errorSurplus = 0
    /\ issuedLatest = 0
    /\ issuedStatus = 0

\* QTimer::timeout -> DataModel::updateData
Tick ==
    /\ timerActive
    /\ ticks < MaxTicks
    /\ ticks' = ticks + 1
    /\ inflight' = updateData(inflight, ticks + 1)
    /\ issuedLatest' = issuedLatest + Cardinality({r \in inflight' \ inflight : IsLatest(r)})
    /\ issuedStatus' = issuedStatus + Cardinality({r \in inflight' \ inflight : IsStatus(r)})
    /\ emitted' = <<>>
    /\ last' = [op |-> "tick", reply |-> NoReply]
    /\ pre' = Snapshot(Members)
    /\ UNCHANGED <<m_vehicleSpeed, m_batteryVoltage, m_motorTemp, m_connected,
                   timerActive, lastOutcome, errorSurplus>>

\* Some request for the same path issued in a later cycle is no longer in
\* flight: its reply has been handled already.
NewerHandled(path, cycle) ==
    \E c \in (cycle + 1)..ticks :
        ~ \E r \in inflight : r.cycle = c /\ r.path = path

\* The finished lambda with a guard that discards the reply to a request
\* older than one already handled for the same endpoint.
Finished_dropsStale(req, reply) ==
    LET s == IF NewerHandled(req.path, req.cycle)
             THEN Members
             ELSE handleNetworkReply(Members, reply)
    IN  /\ m_vehicleSpeed' = s.vehicleSpeed
        /\ m_batteryVoltage' = s.batteryVoltage
        /\ m_motorTemp' = s.motorTemp
        /\ m_connected' = s.connected
        /\ emitted' = s.out
        /\ inflight' = inflight \ {req}
        /\ last' = [op |-> "reply", reply |-> reply]
        /\ pre' = Snapshot(Members)
        /\ lastOutcome' =
              IF Failed(reply) THEN [kind |-> "failure", connected |-> FALSE]
              ELSE IF IsStatus(reply)
                   THEN IF HasBoolConnected(reply)
                        THEN [kind |-> "status", connected |-> Body(reply)["connected"].b]
                        ELSE [kind |-> "undecodable", connected |-> FALSE]
                   ELSE lastOutcome
        /\ errorSurplus' =
              errorSurplus + CountSig(s.out, "error") - (IF Failed(reply) THEN 1 ELSE 0)
        /\ UNCHANGED <<timerActive, ticks, issuedLatest, issuedStatus>>

\* QNetworkReply::finished -> the lambda of fetchLatestData / fetchSystemStatus:
\* handleNetworkReply(reply); reply->deleteLater().
Finished(req, reply) ==
    LET s == handleNetworkReply(Members, reply)
    IN  /\ m_vehicleSpeed' = s.vehicleSpeed
        /\ m_batteryVoltage' = s.batteryVoltage
        /\ m_motorTemp' = s.motorTemp
        /\ m_connected' = s.connected
        /\ emitted' = s.out
        /\ inflight' = inflight \ {req}
        /\ last' = [op |-> "reply", reply |-> reply]
        /\ pre' = Snapshot(Members)
        /\ lastOutcome' =
              IF Failed(reply) THEN [kind |-> "failure", connected |-> FALSE]
              ELSE IF IsStatus(reply)
                   THEN IF HasBoolConnected(reply)
                        THEN [kind |-> "status", connected |-> Body(reply)["connected"].b]
                        ELSE [kind |-> "undecodable", connected |-> FALSE]
                   ELSE lastOutcome
        /\ errorSurplus' =
              errorSurplus + CountSig(s.out, "error") - (IF Failed(reply) THEN 1 ELSE 0)
        /\ UNCHANGED <<timerActive, ticks, issuedLatest, issuedStatus>>

LatestFinished ==
    \E req \in inflight :
        /\ IsLatest(req)
        /\ \E reply \in Replies(req, LatestBodies) : Finished(req, reply)

StatusFinished ==
    \E req \in inflight :
        /\ IsStatus(req)
        /\ \E reply \in Replies(req, StatusBodies) : Finished(req, reply)

Next == Tick \/ LatestFinished \/ StatusFinished

Spec == Init /\ [][Next]_vars

\* The timer is driven by the event loop: an enabled timeout eventually fires.
FairSpec == Spec /\ WF_vars(Tick)

\* ------------------------------------------- vocabulary of the properties
\* What the most recent step handled, read off the reply itself.
TelemetryHandled == last.op = "reply" /\ ~Failed(last.reply) /\ IsLatest(last.reply)
StatusHandled == last.op = "reply" /\ ~Failed(last.reply) /\ IsStatus(last.reply)
FailureHandled == last.op = "reply" /\ Failed(last.reply)

\* The messages mapping of a telemetry body ({} when absent or not an object).
Messages(reply) ==
    IF "messages" \in DOMAIN Body(reply) /\ Body(reply)["messages"].t = "object"
    THEN Body(reply)["messages"].o
    ELSE EmptyObject

\* The response has key k and its entry carries a numeric value member.
Carries(reply, k) ==
    /\ k \in DOMAIN Messages(reply)
    /\ Messages(reply)[k].t = "object"
    /\ "value" \in DOMAIN Messages(reply)[k].o
    /\ Messages(reply)[k].o["value"].t = "double"
Carried(reply, k) == Messages(reply)[k].o["value"].d

\* The response has key k but its entry has no numeric value member.
Lacks(reply, k) == k \in DOMAIN Messages(reply) /\ ~Carries(reply, k)

Stored(k) ==
    CASE k = "speed" -> m_vehicleSpeed
      [] k = "battery_voltage" -> m_batteryVoltage
      [] k = "motor_temp" -> m_motorTemp
Before(k) ==
    CASE k = "speed" -> pre.vehicleSpeed
      [] k = "battery_voltage" -> pre.batteryVoltage
      [] k = "motor_temp" -> pre.motorTemp
Signal(k) ==
    CASE k = "speed" -> "vehicleSpeedChanged"
      [] k = "battery_voltage" -> "batteryVoltageChanged"
      [] k = "motor_temp" -> "motorTempChanged"

InitialSnapshot ==
    [vehicleSpeed |-> 0, batteryVoltage |-> 0, motorTemp |-> 0, connected |-> FALSE]

\* ------------------------------------------------------------------ claims

\* C1: after a telemetry response that carries a value for a field, the
\* stored value of the field is the carried one, and the field's change
\* notification is emitted by that response exactly once if the carried
\* value differs from the value stored before, and not at all otherwise.
C1_StoredIsCarriedNotifiedIffDiffers ==
    TelemetryHandled =>
        \A k \in KnownKeys :
            Carries(last.reply, k) =>
                /\ Stored(k) = Carried(last.reply, k)
                /\ CountSig(emitted, Signal(k)) =
                       IF Carried(last.reply, k) # Before(k) THEN 1 ELSE 0

\* The scenario of C1: {speed: 42.5} applied to the initial snapshot has
\* emitted exactly one speed event and stored 42.5.
C1_Witness ==
    /\ TelemetryHandled
    /\ pre = InitialSnapshot
    /\ DOMAIN Messages(last.reply) = {"speed"}
    /\ Carries(last.reply, "speed") /\ Carried(last.reply, "speed") = 425
    /\ m_vehicleSpeed = 425
    /\ Len(emitted) = 1 /\ emitted[1].sig = "vehicleSpeedChanged"

\* C2 (as claimed): handling a fetch failure emits connectionStatusChanged
\* if and only if connected was true immediately before the failure.
C2_FailureNotifiesOnlyOnTransition ==
    FailureHandled =>
        CountSig(emitted, "connectionStatusChanged") = IF pre.connected THEN 1 ELSE 0

\* C3: a status response with a boolean connected member sets the flag to
\* that value and emits connectionStatusChanged exactly once if the value
\* differs from the flag stored before, and not at all otherwise.
C3_StatusSetsFlagNotifiedIffDiffers ==
    (StatusHandled /\ HasBoolConnected(last.reply)) =>
        /\ m_connected = Body(last.reply)["connected"].b
        /\ CountSig(emitted, "connectionStatusChanged") =
               IF Body(last.reply)["connected"].b # pre.connected THEN 1 ELSE 0

\* connected:true processed while Disconnected: now Connected, one event.
C3_Witness ==
    /\ StatusHandled /\ HasBoolConnected(last.reply)
    /\ Body(last.reply)["connected"].b
    /\ ~pre.connected
    /\ m_connected
    /\ Len(emitted) = 1 /\ emitted[1].sig = "connectionStatusChanged"

\* C4: the flag is a function of the most recent of the status responses
\* and failures: false when there has been none, false after a failure,
\* the reported value after a status response (a status response without a
\* boolean connected member reports none, and leaves the flag false).
\* Ticks and telemetry responses do not move lastOutcome, so they cannot
\* change the flag.
C4_ConnectedIsLastOutcome ==
    /\ lastOutcome.kind = "none" => ~m_connected
    /\ lastOutcome.kind = "failure" => ~m_connected
    /\ lastOutcome.kind = "status" => m_connected = lastOutcome.connected
    /\ lastOutcome.kind = "undecodable" => ~m_connected

\* A telemetry response handled after a status response with
\* connected:true: the flag is still true.
C4_Witness ==
    /\ TelemetryHandled
    /\ lastOutcome.kind = "status" /\ lastOutcome.connected
    /\ m_connected

\* C5: a telemetry response leaves every field whose key it does not have
\* as it was and emits nothing for it; a response without any known key
\* leaves the whole snapshot as it was and emits nothing.
C5_AbsentKeysUntouched ==
    TelemetryHandled =>
        /\ \A k \in KnownKeys :
               k \notin DOMAIN Messages(last.reply) =>
                   Stored(k) = Before(k) /\ CountSig(emitted, Signal(k)) = 0
        /\ DOMAIN Messages(last.reply) \cap KnownKeys = {} =>
               Snapshot(Members) = pre /\ emitted = <<>>

\* A response with only the unknown key, handled when all three fields
\* hold 42.5: nothing moved.
C5_Witness ==
    /\ TelemetryHandled
    /\ DOMAIN Messages(last.reply) = {UnknownKey}
    /\ pre.vehicleSpeed = 425 /\ pre.batteryVoltage = 425 /\ pre.motorTemp = 425
    /\ m_vehicleSpeed = 425 /\ m_batteryVoltage = 425 /\ m_motorTemp = 425
    /\ emitted = <<>>

\* C6: no fetch outcome stops the polling loop.  The timer stays active;
\* a malformed body is answered with an error notification; and, the timer
\* being fair, from any state in which a reply (whatever its outcome) has
\* just been handled the next tick occurs and puts the fetch of both
\* endpoints for the new cycle in flight.
C6_PollingNeverStops ==
    /\ [](timerActive)
    /\ []((last.op = "reply" /\ last.reply.error = NoError
             /\ last.reply.data.t = "garbage")
            => CountSig(emitted, "error") = 1)
    /\ \A k \in 0..(MaxTicks - 1) :
           (ticks = k /\ last.op = "reply")
             ~> (/\ ticks = k + 1
                 /\ last.op = "tick"
                 /\ \E r \in inflight : r.cycle = k + 1 /\ IsLatest(r)
                 /\ \E r \in inflight : r.cycle = k + 1 /\ IsStatus(r))

\* A tick that came after a failure had been handled, with both of its
\* fetches in flight.
C6_Witness ==
    /\ last.op = "tick"
    /\ ticks = 2
    /\ lastOutcome.kind = "failure"
    /\ \E r \in inflight : r.cycle = 2 /\ IsLatest(r)
    /\ \E r \in inflight : r.cycle = 2 /\ IsStatus(r)

\* C7 (as claimed): a status response that parsed as JSON but has no
\* boolean connected member produces an error notification.
C7_UndecodableStatusIsError ==
    (StatusHandled /\ ~HasBoolConnected(last.reply)) =>
        CountSig(emitted, "error") = 1

\* C8 (as claimed): a known key whose entry lacks a numeric value member
\* leaves the field's stored value unchanged and emits no change event for
\* it.
C8_DefectiveEntryLeavesField ==
    TelemetryHandled =>
        \A k \in KnownKeys :
            Lacks(last.reply, k) =>
                Stored(k) = Before(k) /\ CountSig(emitted, Signal(k)) = 0

\* The cause a failed reply carries.
Cause(reply) ==
    IF reply.error = "ConnectionRefusedError" THEN "Connection refused"
    ELSE IF reply.error = "InternalServerError" THEN "Internal Server Error"
    ELSE "Invalid JSON response"

\* C9: a reply that finished with an error or a non-JSON body causes
\* exactly one error notification, carrying the cause; a reply that
\* finished with a JSON body causes none; and over the whole run there are
\* as many error notifications as failed replies.
C9_OneErrorPerFailure ==
    /\ errorSurplus = 0
    /\ FailureHandled =>
           /\ CountSig(emitted, "error") = 1
           /\ \E i \in 1..Len(emitted) :
                  emitted[i].sig = "error" /\ emitted[i].msg = Cause(last.reply)
    /\ (last.op = "reply" /\ ~Failed(last.reply)) => CountSig(emitted, "error") = 0

\* A non-JSON body on the status endpoint: one error notification.
C9_Witness ==
    /\ FailureHandled
    /\ IsStatus(last.reply)
    /\ last.reply.error = NoError
    /\ CountSig(emitted, "error") = 1
    /\ emitted[1].msg = "Invalid JSON response"

\* C10: handling a fetch failure leaves the three numeric fields as they
\* were and emits none of their change notifications.
C10_FailureKeepsReadings ==
    FailureHandled =>
        \A k \in KnownKeys :
            Stored(k) = Before(k) /\ CountSig(emitted, Signal(k)) = 0

\* A transport error handled while the three fields hold 42.5.
C10_Witness ==
    /\ FailureHandled
    /\ last.reply.error = "ConnectionRefusedError"
    /\ pre.vehicleSpeed = 425 /\ pre.batteryVoltage = 425 /\ pre.motorTemp = 425
    /\ m_vehicleSpeed = 425 /\ m_batteryVoltage = 425 /\ m_motorTemp = 425

\* C11 (as claimed): every request is for /api/v1/can/latest or
\* /api/v1/can/status - every segment of the base path is retained.
C11_RequestsKeepBasePath ==
    \A r \in inflight :
        r.path \in {<<"api", "v1", "can", "latest">>, <<"api", "v1", "can", "status">>}

\* C12 (as claimed): no reply of a cycle is applied while the other fetch
\* of the same cycle is still in flight.
C12_AppliedOnlyWhenCycleComplete ==
    last.op = "reply" => ~ \E r \in inflight : r.cycle = last.reply.cycle

\* C13 (as claimed): a failure of the telemetry fetch leaves the connected
\* flag as it was.
C13_TelemetryFailureKeepsFlag ==
    (FailureHandled /\ IsLatest(last.reply)) => m_connected = pre.connected

\* C14 (as claimed): every fetch is resolved before the next tick, so at
\* most two fetches (one per endpoint) are ever in flight.
C14_AtMostTwoInFlight ==
    /\ Cardinality(inflight) <= 2
    /\ Cardinality({r \in inflight : IsLatest(r)}) <= 1
    /\ Cardinality({r \in inflight : IsStatus(r)}) <= 1

\* C15: after k ticks exactly k GETs have been issued to each endpoint,
\* whatever has completed; a tick puts exactly one request per endpoint for
\* its cycle in flight; and the tick is enabled whatever is still in flight
\* (as long as the explored number of ticks is not exhausted).
C15_OneGetPerEndpointPerTick ==
    /\ issuedLatest = ticks
    /\ issuedStatus = ticks
    /\ last.op = "tick" =>
           /\ Cardinality({r \in inflight : r.cycle = ticks /\ IsLatest(r)}) = 1
           /\ Cardinality({r \in inflight : r.cycle = ticks /\ IsStatus(r)}) = 1
    /\ ticks < MaxTicks => ENABLED Tick

\* The second tick has fired although neither reply of the first cycle has
\* finished: four requests in flight, two issued per endpoint.
C15_Witness ==
    /\ last.op = "tick"
    /\ ticks = 2
    /\ Cardinality(inflight) = 4
    /\ issuedLatest = 2 /\ issuedStatus = 2

\* The reply just handled answers a request of an older cycle than a reply
\* already handled for the same endpoint.
StaleHandled == last.op = "reply" /\ NewerHandled(last.reply.path, last.reply.cycle)

\* C17: results are applied as they land.  A reply that completes after the
\* reply to a newer cycle's request for the same endpoint is applied like
\* any other: its value is stored over the newer one, with a change event
\* exactly when it differs from the stored value.
C17_LastCompletedWins ==
    /\ (StaleHandled /\ TelemetryHandled) =>
           \A k \in KnownKeys :
               Carries(last.reply, k) =>
                   /\ Stored(k) = Carried(last.reply, k)
                   /\ CountSig(emitted, Signal(k)) =
                          IF Carried(last.reply, k) # Before(k) THEN 1 ELSE 0
    /\ (StaleHandled /\ StatusHandled /\ HasBoolConnected(last.reply)) =>
           /\ m_connected = Body(last.reply)["connected"].b
           /\ CountSig(emitted, "connectionStatusChanged") =
                  IF Body(last.reply)["connected"].b # pre.connected THEN 1 ELSE 0

\* The telemetry reply of cycle 1 lands after the one of cycle 2 and
\* replaces the speed 42.5 by its own 0.0, with one event.
C17_Witness ==
    /\ StaleHandled /\ TelemetryHandled
    /\ last.reply.cycle = 1
    /\ Carries(last.reply, "speed") /\ Carried(last.reply, "speed") = 0
    /\ pre.vehicleSpeed = 425
    /\ m_vehicleSpeed = 0
    /\ CountSig(emitted, "vehicleSpeedChanged") = 1

\* C18: a telemetry response neither changes connected nor emits
\* connectionStatusChanged; a status response neither changes a numeric
\* field nor emits a numeric change event; so a telemetry response handled
\* when the most recent connectivity outcome is a failure leaves the model
\* Disconnected.
C18_TelemetryAndStatusDisjoint ==
    /\ TelemetryHandled =>
           m_connected = pre.connected /\ CountSig(emitted, "connectionStatusChanged") = 0
    /\ StatusHandled =>
           \A k \in KnownKeys :
               Stored(k) = Before(k) /\ CountSig(emitted, Signal(k)) = 0
    /\ (TelemetryHandled /\ lastOutcome.kind = "failure") => ~m_connected

\* A telemetry response that changed the speed, handled after a failure:
\* still Disconnected.
C18_Witness ==
    /\ TelemetryHandled
    /\ lastOutcome.kind = "failure"
    /\ CountSig(emitted, "vehicleSpeedChanged") = 1
    /\ ~m_connected

\* The value an observer reads from the getter of field k while it handles
\* the event ev.
SeenOf(ev, k) ==
    CASE k = "speed" -> ev.seen.vehicleSpeed
      [] k = "battery_voltage" -> ev.seen.batteryVoltage
      [] k = "motor_temp" -> ev.seen.motorTemp

\* C19: when a change notification is emitted the getter of the notified
\* field already returns the value the step stores, so an observer handling
\* the notification never reads a value the step replaced.
C19_NotifiedAfterStore ==
    \A i \in 1..Len(emitted) :
        /\ \A k \in KnownKeys :
               emitted[i].sig = Signal(k) =>
                   SeenOf(emitted[i], k) = Stored(k) /\ SeenOf(emitted[i], k) # Before(k)
        /\ emitted[i].sig = "connectionStatusChanged" =>
               /\ emitted[i].seen.connected = m_connected
               /\ m_connected # pre.connected => emitted[i].seen.connected # pre.connected

\* connected:true handled while Disconnected: the observer of
\* connectionStatusChanged reads true.
C19_Witness ==
    /\ StatusHandled
    /\ ~pre.connected
    /\ Len(emitted) = 1
    /\ emitted[1].sig = "connectionStatusChanged"
    /\ emitted[1].seen.connected

\* C20: a fetch failure emits error first, while the getter of connected
\* still returns the value from before the failure, and
\* connectionStatusChanged after it, with the flag cleared.
C20_ErrorBeforeFlagCleared ==
    FailureHandled =>
        /\ Len(emitted) = 2
        /\ emitted[1].sig = "error"
        /\ emitted[1].seen.connected = pre.connected
        /\ emitted[2].sig = "connectionStatusChanged"
        /\ ~emitted[2].seen.connected

\* A failure handled while Connected: the observer of error still reads
\* connected = true.
C20_Witness ==
    /\ FailureHandled
    /\ pre.connected
    /\ emitted[1].sig = "error"
    /\ emitted[1].seen.connected
    /\ ~m_connected

====
